---- MODULE Spec2Model ----
(***************************************************************************)
(* Model of the docsmith RTF-to-HTML conversion pipeline: the onRequest,   *)
(* preHandler and onSend hooks of the rtf-to-html plugin, the content-type *)
(* parser that sniffs the payload, the route handler, and the shutdown     *)
(* handler that removes the temp directory.  Every request is a small      *)
(* process whose steps are the await points of the hooks; the file system  *)
(* (temp directory, process working directory) is shared by all requests.  *)
(*                                                                         *)
(* The functions of the plugins and of the route module (tidyHtml, the     *)
(* route handler's choice to tidy, the parsing of the request body) are    *)
(* operators on bounded documents, options and payloads; FnSpec calls each *)
(* of them once on every argument, and tidyHtml a second time on its own   *)
(* output.  HtmlSpec is the pipeline under the HTML route, whose handler   *)
(* hands the language of the query string to tidyHtml.                     *)
(***************************************************************************)
EXTENDS Integers, Sequences, FiniteSets, TLC

\* ---------------------------------------------------------------- bounds
NumReq == 2
UuidLen == 2
MaxPics == 1
MaxImgs == 2

Reqs == 1..NumReq
Picts == 1..MaxPics

\* ------------------------------------------------------------- constants
Undefined == "undefined"
NoId == <<>>
NoConv == [set |-> FALSE, docLocation |-> NoId, body |-> Undefined]
ExpectedMime == "application/pdf"
IdPrefix == "docsmith_rtf-to-html_"
RtfExt == ".rtf"

VARIABLES
    pc,          \* position of each request in the fastify lifecycle
    reqBody,     \* req.body: which payload the client sent
    conv,        \* req.conversionResults
    images,      \* img nodes (src) of the request's DOM
    tempDir,     \* files present in the temp directory
    dirExists,   \* the temp directory itself exists
    cwd,         \* pictNNN side files in process.cwd(): name -> request whose conversion wrote it (0: absent)
    globbed,     \* result of the onSend hook's glob, awaiting unlink
    reply,       \* status code and payload of the reply
    errHandled,  \* the reply already went through the error handler
    cleanupRuns, \* number of times the onSend hook ran its glob + unlink
    sent,        \* response handed to the transport
    aborted,     \* client disconnected
    closing,     \* SIGINT/SIGTERM received
    call,        \* a direct call of one of the plugin's functions: its arguments
    ret,         \* what the call returned or threw
    again        \* what tidyHtml returned when applied to its own output

pipeVars == <<pc, reqBody, conv, images, tempDir, dirExists, cwd, globbed,
              reply, errHandled, cleanupRuns, sent, aborted, closing>>
fnVars == <<call, ret, again>>
vars == <<pipeVars, fnVars>>

\* ------------------------------------------------------- pure operators
\* randomUUID(): a token of fixed length, and no two calls return the same
\* one; every request calls it once, so the call of request r returns the
\* r-th token
RandomUUIDVarLen(r) == [i \in 1..r |-> "f"]
RandomUUID(r) == [i \in 1..UuidLen |-> IF i = 1 THEN ToString(r) ELSE "0"]

\* `docsmith_rtf-to-html_${randomUUID()}`
MakeId(uuid) == <<IdPrefix>> \o uuid

\* path.joinSafe(directory, `${id}.rtf`), relative to the temp directory
TempFile(id) == id \o <<RtfExt>>

IsPrefix(p, s) == Len(p) <= Len(s) /\ SubSeq(s, 1, Len(p)) = p

\* the pattern `${joinSafe(directory, id)}*` matches file f
GlobMatchNoStar(id, f) == f = id
GlobMatch(id, f) == IsPrefix(id, f)

\* glob(...): the files of the temp directory the pattern matches
Glob(id) == {f \in tempDir : GlobMatch(id, f)}

\* fileType.fromBuffer(payload)
FileTypeFromBuffer(b) ==
    CASE b = "pdf" -> [found |-> TRUE, mime |-> "application/pdf"]
      [] b = "rtf" -> [found |-> TRUE, mime |-> "application/rtf"]
      [] OTHER -> [found |-> FALSE, mime |-> Undefined]

\* the content-type parser's gate
SniffAccepts(b) ==
    LET results == FileTypeFromBuffer(b) IN
    ~ (\/ ~results.found
       \/ results.mime = Undefined
       \/ results.mime # ExpectedMime)

Bodies == {"missing", "pdf", "rtf"}

\* ------------------------------------------------- the tidyHtml decorator
\* an HTML document, as far as tidyHtml can tell two documents apart: the
\* language attributes of <html>, the attributes of its <img> elements, a
\* text node that holds a character reference, markup only the tidy pass
\* rewrites (smart quotes, legacy tags, CDATA, proprietary attributes) and
\* layout only the minify pass rewrites (whitespace, comments, attribute order)
Absent == "absent"
Imgs == [alt : {Absent, "", "logo"}, title : {Absent, ""}]
ImgLists == UNION {[1..n -> Imgs] : n \in 0..MaxImgs}
Texts == {"x", "&#120;", "&amp;#120;", "&amp;amp;#120;"}
Docs == [lang : {Absent, "de"}, xmlLang : {Absent, "de"}, imgs : ImgLists,
         text : Texts, legacy : BOOLEAN, loose : BOOLEAN]

\* the options argument: language is a string or undefined; removeAlt is the
\* boolean true ("true"), the string 'true' ("'true'") or undefined
Languages == {Undefined, "", "fr", "zz-invalid"}
RemoveAlts == {Undefined, "true", "'true'"}
Options == [language : Languages, removeAlt : RemoveAlts]
NoOptions == [language |-> Undefined, removeAlt |-> Undefined]

\* check(tag) of language-tags: the tag is in the IANA registry
IanaTags == {"en", "fr", "de"}
Check(tag) == tag \in IanaTags

\* options.language || "en": undefined and the empty string are falsy
LanguageOf(options) ==
    IF options.language \in {Undefined, ""} THEN "en" ELSE options.language

LanguageMessage == "querystring.language not a valid IANA language tag"

\* innerHtml.setAttribute("lang", language); setAttribute("xml:lang", language)
SetLanguageLangOnly(dom, language) == [dom EXCEPT !.lang = language]
SetLanguage(dom, language) ==
    [dom EXCEPT !.lang = language, !.xmlLang = language]

\* if (options.removeAlt === true) every img: setAttribute("alt", "")
RemoveAlt(dom, options) ==
    IF options.removeAlt = "true"
      THEN [dom EXCEPT !.imgs = [i \in DOMAIN @ |-> [@[i] EXCEPT !.alt = ""]]]
      ELSE dom

\* character references of a text node are decoded, and an ampersand that
\* would begin a character reference is written as &amp;
DecodeEntitiesNoEscape(text) ==
    CASE text = "&#120;" -> "x"
      [] text = "&amp;#120;" -> "&#120;"
      [] text = "&amp;amp;#120;" -> "&amp;#120;"
      [] OTHER -> text
DecodeEntities(text) ==
    CASE text = "&#120;" -> "x"
      [] OTHER -> text

\* new JSDOM(html) ... dom.serialize(): attributes and elements are kept,
\* text is parsed and escaped again
Serialize(dom) == [dom EXCEPT !.text = DecodeEntities(@)]

\* tidyP(html, {bare, clean, dropProprietaryAttributes, escapeCdata}): the
\* legacy markup is rewritten; tidy writes its output wrapped and on lines
TidyP(html) == [html EXCEPT !.legacy = FALSE, !.loose = TRUE]

\* removeEmptyAttributes of html-minifier-terser: an attribute whose value is
\* empty is removed when its name is one of these
EmptyRemovable == {"class", "id", "style", "title", "lang", "dir"}
CanDeleteEmptyAttributeAny(name, value) == value = ""
CanDeleteEmptyAttribute(name, value) == value = "" /\ name \in EmptyRemovable
MinifyAttribute(name, value) ==
    IF CanDeleteEmptyAttribute(name, value) THEN Absent ELSE value

\* minify(html, {collapseWhitespace, decodeEntities, removeComments,
\* removeEmptyAttributes, removeRedundantAttributes, sortAttributes,
\* sortClassName})
Minify(html) ==
    [lang |-> MinifyAttribute("lang", html.lang),
     xmlLang |-> MinifyAttribute("xml:lang", html.xmlLang),
     imgs |-> [i \in DOMAIN html.imgs |->
                 [alt |-> MinifyAttribute("alt", html.imgs[i].alt),
                  title |-> MinifyAttribute("title", html.imgs[i].title)]],
     text |-> DecodeEntities(html.text),
     legacy |-> html.legacy,
     loose |-> FALSE]

\* what a call returns (status 200, the value in out) or throws (status and
\* message of the error, nothing in out); passes counts the tidy + minify
\* passes the call ran
Returns(value, n) ==
    [status |-> 200, message |-> "", out |-> <<value>>, passes |-> n]
Throws(code, msg) ==
    [status |-> code, message |-> msg, out |-> <<>>, passes |-> 0]

\* tidyHtml(html, options = {})
TidyHtml(html, options) ==
    LET language == LanguageOf(options) IN
    IF ~Check(language)
      THEN Throws(400, LanguageMessage)
      ELSE Returns(Minify(TidyP(Serialize(
                       RemoveAlt(SetLanguage(html, language), options)))), 1)

\* -------------------------------------------------------- the route module
\* the query flags of the route's schema
Queries == [boundingBoxXhtml : BOOLEAN, boundingBoxXhtmlLayout : BOOLEAN,
            generateHtmlMetaFile : BOOLEAN]

\* async handler(req, res): the value handed to res.send
RouteHandlerAllFlags(query, body) ==
    IF /\ query.boundingBoxXhtml
       /\ query.boundingBoxXhtmlLayout
       /\ query.generateHtmlMetaFile
      THEN TidyHtml(body, NoOptions)
      ELSE Returns(body, 0)
RouteHandler(query, body) ==
    IF \/ query.boundingBoxXhtml
       \/ query.boundingBoxXhtmlLayout
       \/ query.generateHtmlMetaFile
      THEN TidyHtml(body, NoOptions)
      ELSE Returns(body, 0)

\* the content-type header of a request: the one the parser is registered
\* for, another one, or none
DeclaredTypes == {ExpectedMime, "application/html", Undefined}

\* the async (req, payload) => ... function given to addContentTypeParser
ContentTypeParser(payload) ==
    IF SniffAccepts(payload)
      THEN Returns(payload, 0)
      ELSE Throws(415, "Unsupported Media Type")

\* how fastify gets req.body of a POST: without a content-type header and
\* without a body nothing is parsed and req.body stays undefined; a content
\* type no parser is registered for is refused; else the parser is run
ParseBody(declared, payload) ==
    IF declared = Undefined /\ payload = "missing"
      THEN Returns(Undefined, 0)
      ELSE IF declared # ExpectedMime
             THEN Throws(415, "Unsupported Media Type: " \o declared)
             ELSE ContentTypeParser(payload)


\* req?.conversionResults?.docLocation
HasBodyOnly(r) == conv[r].set /\ conv[r].body # Undefined
HasDocLocation(r) == conv[r].set /\ conv[r].docLocation # NoId

\* ------------------------------------------------------------------ Init
PipeInit ==
    /\ pc = [r \in Reqs |-> "idle"]
    /\ reqBody = [r \in Reqs |-> Undefined]
    /\ conv = [r \in Reqs |-> NoConv]
    /\ images = [r \in Reqs |-> {}]
    /\ tempDir = {}
    /\ dirExists = TRUE
    /\ cwd = [p \in Picts |-> 0]
    /\ globbed = [r \in Reqs |-> {}]
    /\ reply = [r \in Reqs |-> [status |-> 200, payload |-> "none"]]
    /\ errHandled = [r \in Reqs |-> FALSE]
    /\ cleanupRuns = [r \in Reqs |-> 0]
    /\ sent = [r \in Reqs |-> FALSE]
    /\ aborted = [r \in Reqs |-> FALSE]
    /\ closing = FALSE

\* no function of the plugins has been called directly
NoCall == [fn |-> "none"]
NoRet == [status |-> 0, message |-> "", out |-> <<>>, passes |-> 0]

Init ==
    /\ PipeInit
    /\ call = NoCall
    /\ ret = NoRet
    /\ again = NoRet

\* a hook, the parser or the handler throws err: the error handler sets the
\* status and sends the serialized error, which goes through the onSend hooks
Throw(r, code, err) ==
    /\ reply' = [reply EXCEPT ![r] = [status |-> code, payload |-> err]]
    /\ errHandled' = [errHandled EXCEPT ![r] = TRUE]
    /\ pc' = [pc EXCEPT ![r] = "onSend"]

\* --------------------------------------------------------------- actions
\* onRequest hook: req.conversionResults = { body: undefined }
OnRequest(r) ==
    /\ pc[r] = "idle"
    /\ ~closing
    /\ \E b \in Bodies : reqBody' = [reqBody EXCEPT ![r] = b]
    /\ conv' = [conv EXCEPT ![r] = [set |-> TRUE, docLocation |-> NoId, body |-> Undefined]]
    /\ pc' = [pc EXCEPT ![r] = "parse"]
    /\ UNCHANGED <<images, tempDir, dirExists, cwd, globbed, reply, errHandled, cleanupRuns, sent, aborted, closing>>
    /\ UNCHANGED fnVars

\* content-type parser: magic-number check of the payload
ParseNoGate(r) ==
    /\ pc[r] = "parse"
    /\ pc' = [pc EXCEPT ![r] = "preHandler"]
    /\ UNCHANGED <<reply, errHandled>>
    /\ UNCHANGED <<reqBody, conv, images, tempDir, dirExists, cwd, globbed,
                   cleanupRuns, sent, aborted, closing>>
    /\ UNCHANGED fnVars

Parse(r) ==
    /\ pc[r] = "parse"
    /\ IF SniffAccepts(reqBody[r])
         THEN /\ pc' = [pc EXCEPT ![r] = "preHandler"]
              /\ UNCHANGED <<reply, errHandled>>
         ELSE Throw(r, 415, "UnsupportedMediaType")
    /\ UNCHANGED <<reqBody, conv, images, tempDir, dirExists, cwd, globbed,
                   cleanupRuns, sent, aborted, closing>>
    /\ UNCHANGED fnVars

\* preHandler hook up to its first await: generate the id, record docLocation
PreHandlerStageNoRecord(r) ==
    /\ pc[r] = "preHandler"
    /\ pc' = [pc EXCEPT ![r] = "write"]
    /\ UNCHANGED <<reqBody, conv, images, tempDir, dirExists, cwd, globbed,
                   reply, errHandled, cleanupRuns, sent, aborted, closing>>
    /\ UNCHANGED fnVars
PreHandlerStage(r) ==
    /\ pc[r] = "preHandler"
    /\ conv' = [conv EXCEPT ![r].docLocation = MakeId(RandomUUID(r))]
    /\ pc' = [pc EXCEPT ![r] = "write"]
    /\ UNCHANGED <<reqBody, images, tempDir, dirExists, cwd, globbed, reply,
                   errHandled, cleanupRuns, sent, aborted,
                   closing>>
    /\ UNCHANGED fnVars

\* await fs.writeFile(tempFile, req.body)
WriteFile(r) ==
    /\ pc[r] = "write"
    /\ LET f == TempFile(conv[r].docLocation) IN
       \/ /\ dirExists
          /\ tempDir' = tempDir \cup {f}
          /\ pc' = [pc EXCEPT ![r] = "convert"]
          /\ UNCHANGED <<reply, errHandled>>
       \/ /\ dirExists
          /\ \E partial \in BOOLEAN :
               tempDir' = IF partial THEN tempDir \cup {f} ELSE tempDir
          /\ Throw(r, 500, "WriteError")
       \/ /\ ~dirExists
          /\ UNCHANGED tempDir
          /\ Throw(r, 500, "WriteError")
    /\ UNCHANGED <<reqBody, conv, images, dirExists, cwd, globbed, cleanupRuns, sent, aborted, closing>>
    /\ UNCHANGED fnVars

\* await unrtf.convert(tempFile, options): the external converter; it reads
\* the temp file, so it can only succeed, or reject the media type, while
\* the file is there
ConvertWithRetry(r) ==
    /\ pc[r] = "convert"
    /\ \/ \E n \in 0..MaxPics :
            /\ TempFile(conv[r].docLocation) \in tempDir
            /\ cwd' = [p \in Picts |-> IF p <= n THEN r ELSE cwd[p]]
            /\ images' = [images EXCEPT ![r] = 1..n]
            /\ pc' = [pc EXCEPT ![r] = "normalise"]
            /\ UNCHANGED <<reply, errHandled>>
       \/ /\ TempFile(conv[r].docLocation) \in tempDir
          /\ Throw(r, 400, "BadRequest")
          /\ UNCHANGED <<cwd, images>>
       \/ /\ pc' = [pc EXCEPT ![r] = "write"]
          /\ UNCHANGED <<reply, errHandled, cwd, images>>
    /\ UNCHANGED <<reqBody, conv, tempDir, dirExists, globbed, cleanupRuns, sent, aborted, closing>>
    /\ UNCHANGED fnVars
Convert(r) ==
    /\ pc[r] = "convert"
    /\ \/ \E n \in 0..MaxPics :
            /\ TempFile(conv[r].docLocation) \in tempDir
            /\ cwd' = [p \in Picts |-> IF p <= n THEN r ELSE cwd[p]]
            /\ images' = [images EXCEPT ![r] = 1..n]
            /\ pc' = [pc EXCEPT ![r] = "normalise"]
            /\ UNCHANGED <<reply, errHandled>>
       \/ /\ TempFile(conv[r].docLocation) \in tempDir
          /\ Throw(r, 400, "BadRequest")
          /\ UNCHANGED <<cwd, images>>
       \/ /\ Throw(r, 500, "ConvertError")
          /\ UNCHANGED <<cwd, images>>
    /\ UNCHANGED <<reqBody, conv, tempDir, dirExists, globbed, cleanupRuns, sent, aborted, closing>>
    /\ UNCHANGED fnVars

\* the files the image-removal loop deletes from the working directory
RmTargetsSweep(r) == Picts
RmTargets(r) == images[r]

\* fs.rm(file, { force: true }) can be rejected: with force a missing file is
\* not an error, so only the removal of a file that is there can fail
RmRejectsNoForce(p) == TRUE
RmRejects(p) == cwd[p] # 0

\* title injection, image removal (fs.rm force), fixUtf8, res.type
Normalise(r) ==
    /\ pc[r] = "normalise"
    /\ images' = [images EXCEPT ![r] = {}]
    /\ \/ /\ cwd' = [p \in Picts |-> IF p \in RmTargets(r) THEN 0 ELSE cwd[p]]
          /\ conv' = [conv EXCEPT ![r].body = "html"]
          /\ pc' = [pc EXCEPT ![r] = "handler"]
          /\ UNCHANGED <<reply, errHandled>>
       \/ \E bad \in RmTargets(r) :
            /\ RmRejects(bad)
            /\ cwd' = [p \in Picts |->
                         IF p \in RmTargets(r) /\ p # bad THEN 0 ELSE cwd[p]]
            /\ UNCHANGED conv
            /\ Throw(r, 500, "RmError")
    /\ UNCHANGED <<reqBody, tempDir, dirExists, globbed, cleanupRuns, sent, aborted, closing>>
    /\ UNCHANGED fnVars

\* route handler: res.send(result)
Handler(r) ==
    /\ pc[r] = "handler"
    /\ reply' = [reply EXCEPT ![r] = [status |-> 200, payload |-> "document"]]
    /\ pc' = [pc EXCEPT ![r] = "onSend"]
    /\ UNCHANGED <<reqBody, conv, images, tempDir, dirExists, cwd, globbed,
                   errHandled, cleanupRuns, sent, aborted,
                   closing>>
    /\ UNCHANGED fnVars

\* route handler of the HTML route, which hands the language of the query
\* string to tidyHtml: res.send(await server.tidyHtml(body, { language }))
HandlerHtml(r) ==
    /\ pc[r] = "handler"
    /\ \E language \in Languages :
         IF Check(LanguageOf([language |-> language, removeAlt |-> Undefined]))
           THEN /\ reply' = [reply EXCEPT ![r] =
                               [status |-> 200, payload |-> "document"]]
                /\ pc' = [pc EXCEPT ![r] = "onSend"]
                /\ UNCHANGED errHandled
           ELSE Throw(r, 400, LanguageMessage)
    /\ UNCHANGED <<reqBody, conv, images, tempDir, dirExists, cwd, globbed,
                   cleanupRuns, sent, aborted, closing>>
    /\ UNCHANGED fnVars

\* onSend hook up to the end of its glob
OnSendGlob(r) ==
    /\ pc[r] = "onSend"
    /\ IF HasDocLocation(r)
         THEN /\ globbed' = [globbed EXCEPT ![r] = Glob(conv[r].docLocation)]
              /\ cleanupRuns' = [cleanupRuns EXCEPT ![r] = @ + 1]
              /\ pc' = [pc EXCEPT ![r] = "unlink"]
         ELSE /\ pc' = [pc EXCEPT ![r] = "respond"]
              /\ UNCHANGED <<globbed, cleanupRuns>>
    /\ UNCHANGED <<reqBody, conv, images, tempDir, dirExists, cwd, reply,
                   errHandled, sent, aborted, closing>>
    /\ UNCHANGED fnVars

\* await Promise.all(files.map((file) => fs.unlink(file))); return payload
OnSendUnlinkNoReturn(r) ==
    /\ pc[r] = "unlink"
    /\ \E denied \in SUBSET (globbed[r] \cap tempDir) :
         LET missing == globbed[r] \ tempDir
             errs == (IF missing # {} THEN {"ENOENT"} ELSE {})
                       \cup (IF denied # {} THEN {"EPERM"} ELSE {})
         IN
         /\ tempDir' = tempDir \ (globbed[r] \ denied)
         /\ IF errs = {}
              THEN /\ pc' = [pc EXCEPT ![r] = "respond"]
                   /\ reply' = [reply EXCEPT ![r].payload = Undefined]
                   /\ UNCHANGED errHandled
              ELSE \E e \in errs :
                   /\ reply' = [reply EXCEPT ![r] =
                        [status |-> IF reply[r].status >= 400
                                      THEN reply[r].status ELSE 500,
                         payload |-> e]]
                   /\ errHandled' = [errHandled EXCEPT ![r] = TRUE]
                   /\ pc' = [pc EXCEPT ![r] =
                               IF errHandled[r] THEN "respond" ELSE "onSend"]
    /\ globbed' = [globbed EXCEPT ![r] = {}]
    /\ UNCHANGED <<reqBody, conv, images, dirExists, cwd, cleanupRuns,
                   sent, aborted, closing>>
    /\ UNCHANGED fnVars
OnSendUnlink(r) ==
    /\ pc[r] = "unlink"
    /\ \E denied \in SUBSET (globbed[r] \cap tempDir) :
         LET missing == globbed[r] \ tempDir
             errs == (IF missing # {} THEN {"ENOENT"} ELSE {})
                       \cup (IF denied # {} THEN {"EPERM"} ELSE {})
         IN
         /\ tempDir' = tempDir \ (globbed[r] \ denied)
         /\ IF errs = {}
              THEN /\ pc' = [pc EXCEPT ![r] = "respond"]
                   /\ UNCHANGED <<reply, errHandled>>
              ELSE \E e \in errs :
                   /\ reply' = [reply EXCEPT ![r] =
                        [status |-> IF reply[r].status >= 400
                                      THEN reply[r].status ELSE 500,
                         payload |-> e]]
                   /\ errHandled' = [errHandled EXCEPT ![r] = TRUE]
                   /\ pc' = [pc EXCEPT ![r] =
                               IF errHandled[r] THEN "respond" ELSE "onSend"]
    /\ globbed' = [globbed EXCEPT ![r] = {}]
    /\ UNCHANGED <<reqBody, conv, images, dirExists, cwd, cleanupRuns,
                   sent, aborted, closing>>
    /\ UNCHANGED fnVars

\* the payload the onSend hooks returned is written to the transport
Respond(r) ==
    /\ pc[r] = "respond"
    /\ sent' = [sent EXCEPT ![r] = TRUE]
    /\ pc' = [pc EXCEPT ![r] = "done"]
    /\ UNCHANGED <<reqBody, conv, images, tempDir, dirExists, cwd, globbed,
                   reply, errHandled, cleanupRuns, aborted,
                   closing>>
    /\ UNCHANGED fnVars

\* the client disconnects before the response is sent
AbortKills(r) ==
    /\ pc[r] \notin {"idle", "done"}
    /\ ~aborted[r]
    /\ aborted' = [aborted EXCEPT ![r] = TRUE]
    /\ pc' = [pc EXCEPT ![r] = "done"]
    /\ UNCHANGED <<reqBody, conv, images, tempDir, dirExists, cwd, globbed,
                   reply, errHandled, cleanupRuns, sent,
                   closing>>
    /\ UNCHANGED fnVars

Abort(r) ==
    /\ pc[r] \notin {"idle", "done"}
    /\ ~aborted[r]
    /\ aborted' = [aborted EXCEPT ![r] = TRUE]
    /\ UNCHANGED <<pc, reqBody, conv, images, tempDir, dirExists, cwd, globbed,
                   reply, errHandled, cleanupRuns, sent,
                   closing>>
    /\ UNCHANGED fnVars

\* SIGINT/SIGTERM: fs.rm(config.tempDir, { recursive: true }) runs alongside
\* server.close(), which lets the requests in flight finish
Shutdown ==
    /\ ~closing
    /\ closing' = TRUE
    /\ tempDir' = {}
    /\ dirExists' = FALSE
    /\ UNCHANGED <<pc, reqBody, conv, images, cwd, globbed, reply, errHandled, cleanupRuns, sent, aborted>>
    /\ UNCHANGED fnVars

\* one step of request r's pipeline
Step(r) ==
    \/ Parse(r)
    \/ PreHandlerStage(r)
    \/ WriteFile(r)
    \/ Convert(r)
    \/ Normalise(r)
    \/ Handler(r)
    \/ OnSendGlob(r)
    \/ OnSendUnlink(r)
    \/ Respond(r)

Next ==
    \/ \E r \in Reqs : OnRequest(r)
    \/ \E r \in Reqs : Step(r)
    \/ \E r \in Reqs : Abort(r)
    \/ Shutdown

Spec == Init /\ [][Next]_vars

\* the same pipeline under the HTML route, whose handler is HandlerHtml
StepHtml(r) ==
    \/ Parse(r)
    \/ PreHandlerStage(r)
    \/ WriteFile(r)
    \/ Convert(r)
    \/ Normalise(r)
    \/ HandlerHtml(r)
    \/ OnSendGlob(r)
    \/ OnSendUnlink(r)
    \/ Respond(r)

HtmlNext ==
    \/ \E r \in Reqs : OnRequest(r)
    \/ \E r \in Reqs : StepHtml(r)
    \/ \E r \in Reqs : Abort(r)
    \/ Shutdown

HtmlSpec == Init /\ [][HtmlNext]_vars

\* the event loop keeps running every accepted request's pipeline
FairSpec == Spec /\ \A r \in Reqs : WF_vars(Step(r))

\* ------------------------------------------- calls of the pure functions
\* one call of tidyHtml, of the route handler or of the body parsing, with
\* arguments drawn from the bounded sets above
TidyCalls == [fn : {"tidyHtml"}, html : Docs, options : Options]
HandlerCalls == [fn : {"handler"}, query : Queries, body : Docs]
ParseCalls == [fn : {"parseBody"}, declared : DeclaredTypes, payload : Bodies]

FnInit ==
    /\ PipeInit
    /\ \/ call \in TidyCalls
       \/ call \in HandlerCalls
       \/ call \in ParseCalls
    /\ ret = NoRet
    /\ again = NoRet

CallTidyHtml ==
    /\ call.fn = "tidyHtml"
    /\ ret = NoRet
    /\ ret' = TidyHtml(call.html, call.options)
    /\ UNCHANGED <<call, again>>
    /\ UNCHANGED pipeVars

\* tidyHtml applied to the document the first call returned
CallTidyHtmlAgain ==
    /\ call.fn = "tidyHtml"
    /\ ret.status = 200
    /\ again = NoRet
    /\ again' = TidyHtml(ret.out[1], call.options)
    /\ UNCHANGED <<call, ret>>
    /\ UNCHANGED pipeVars

CallRouteHandler ==
    /\ call.fn = "handler"
    /\ ret = NoRet
    /\ ret' = RouteHandler(call.query, call.body)
    /\ UNCHANGED <<call, again>>
    /\ UNCHANGED pipeVars

CallParseBody ==
    /\ call.fn = "parseBody"
    /\ ret = NoRet
    /\ ret' = ParseBody(call.declared, call.payload)
    /\ UNCHANGED <<call, again>>
    /\ UNCHANGED pipeVars

FnNext ==
    \/ CallTidyHtml
    \/ CallTidyHtmlAgain
    \/ CallRouteHandler
    \/ CallParseBody

FnSpec == FnInit /\ [][FnNext]_vars

\* ------------------------------------------------------------ properties
\* the files of the temp directory whose name begins with request r's id
FilesOf(r) == {f \in tempDir : IsPrefix(conv[r].docLocation, f)}

\* request r recorded a docLocation (its workspace was staged)
Staged(r) == conv[r].docLocation # NoId

\* request r takes the unlink step of its onSend hook
UnlinkStep(r) == pc[r] = "unlink" /\ pc'[r] # "unlink"

\* request r takes the image-removal step of its preHandler hook
NormaliseStep(r) == pc[r] = "normalise" /\ pc'[r] # "normalise"

C2_CleanupOnFailure ==
    \A r \in Reqs :
        (pc[r] \in {"respond", "done"} /\ Staged(r) /\ reply[r].status >= 400)
            => cleanupRuns[r] >= 1

C2_Witness ==
    \E a, b \in Reqs :
        /\ pc[a] = "done" /\ reply[a].payload = "WriteError"
        /\ pc[b] = "done" /\ reply[b].payload \in {"ConvertError", "RmError"}
        /\ cleanupRuns[a] = 1 /\ cleanupRuns[b] = 1

\* C3: if the client of a request that staged a workspace disconnects, the
\* cleanup (glob + unlink) of that request is eventually run.
C3_CleanupAfterDisconnect ==
    \A r \in Reqs : (aborted[r] /\ Staged(r)) ~> (cleanupRuns[r] >= 1)

C3_Witness ==
    \E r \in Reqs :
        aborted[r] /\ Staged(r) /\ pc[r] = "done" /\ cleanupRuns[r] >= 1

\* C4: for every request that staged a workspace the cleanup has run exactly
\* once when the response has completed.
C4_CleanupExactlyOnce ==
    \A r \in Reqs : (pc[r] = "done" /\ Staged(r)) => cleanupRuns[r] = 1

\* C5: the cleanup of a request runs only after its response has been
\* handed to the transport (Sent before Cleaned).
C5_SentBeforeCleaned ==
    \A r \in Reqs : cleanupRuns[r] >= 1 => sent[r]

\* C6: the unlink step of request a removes only files whose name begins
\* with a's id, and leaves the input file of every other request in place.
C6_CleanupIsolation ==
    [][\A a \in Reqs : UnlinkStep(a) =>
          /\ \A f \in tempDir \ tempDir' : IsPrefix(conv[a].docLocation, f)
          /\ \A b \in Reqs \ {a} :
                (Staged(b) /\ TempFile(conv[b].docLocation) \in tempDir)
                    => TempFile(conv[b].docLocation) \in tempDir']_vars

C6_Witness ==
    \E a, b \in Reqs :
        /\ a # b
        /\ pc[a] = "done" /\ reply[a].payload = "document"
        /\ FilesOf(a) = {}
        /\ pc[b] = "convert" /\ TempFile(conv[b].docLocation) \in tempDir

\* C7 (as stated): a side file in the working directory is never deleted
\* while the request whose conversion created it still references it.
C7_NeverDeletesAnothersSideFile ==
    [][\A p \in Picts :
          ~ (cwd[p] # 0 /\ cwd'[p] = 0 /\ p \in images'[cwd[p]])]_vars

\* C7 (amended): a side file is deleted only by the image-removal step of a
\* request whose converted document references a file of that name, and a
\* successful image-removal step deletes every file its document references;
\* the names are not request-specific, so the file may be one that another
\* request's conversion created.
C7_RemovesExactlyReferenced ==
    [][/\ \A p \in Picts : (cwd[p] # 0 /\ cwd'[p] = 0) =>
              \E r \in Reqs : NormaliseStep(r) /\ p \in images[r]
       /\ \A r \in Reqs : (NormaliseStep(r) /\ pc'[r] = "handler") =>
              \A p \in images[r] : cwd'[p] = 0]_vars

C7_Witness ==
    \E a, b \in Reqs :
        /\ a # b
        /\ pc[a] = "handler"
        /\ pc[b] = "normalise"
        /\ images[b] # {}
        /\ \A p \in images[b] : cwd[p] = 0

\* C8: a missing-file error of the cleanup's unlink is swallowed, it never
\* becomes the response of the request.
C8_EnoentSwallowed ==
    \A r \in Reqs : pc[r] = "done" => reply[r].payload # "ENOENT"

\* C9: an unlink failure other than missing-file never changes what the
\* client receives.
C9_UnlinkErrorNotVisible ==
    \A r \in Reqs : pc[r] = "done" => reply[r].payload # "EPERM"

C11_LanguageErrorBeforeStaging ==
    \A r \in Reqs :
        reply[r].payload = LanguageMessage
            => (~Staged(r) /\ conv[r].body = Undefined /\ cleanupRuns[r] = 0)

\* the sniffed type of the payload is the type the route expects
SniffedExpected(payload) ==
    LET results == FileTypeFromBuffer(payload) IN
    results.found /\ results.mime = ExpectedMime

\* C12: a body is passed on to the conversion only if its sniffed type is the
\* expected one, and then unchanged; a request whose body is missing or whose
\* sniffed type is undefined or different gets a 415, whatever content type
\* it declared.
C12_OnlySniffedPayloadPasses ==
    (call.fn = "parseBody" /\ ret # NoRet) =>
        /\ ret.status = 200 =>
              (SniffedExpected(call.payload) /\ ret.out = <<call.payload>>)
        /\ ~SniffedExpected(call.payload) => ret.status = 415

\* C13: a request whose converter run was rejected with 'File is not the
\* correct media type' fails with status 415, and no converted body is
\* attached to it.
C13_MalformedInputIs415 ==
    \A r \in Reqs :
        reply[r].payload = "BadRequest"
            => (reply[r].status = 415 /\ conv[r].body = Undefined)

\* how far a request has come in its lifecycle
StageRank(stage) ==
    CASE stage = "idle" -> 0
      [] stage = "parse" -> 1
      [] stage = "preHandler" -> 2
      [] stage = "write" -> 3
      [] stage = "convert" -> 4
      [] stage = "normalise" -> 5
      [] stage = "handler" -> 6
      [] stage = "onSend" -> 7
      [] stage = "unlink" -> 8
      [] stage = "respond" -> 9
      [] stage = "done" -> 10

\* C14: a converter failure other than malformed input makes the request a
\* server error (status 500, which it keeps), and nothing is retried: a
\* request only moves forward (but for the onSend hooks run again for an
\* error reply), the converter is entered only from the one temp-file write,
\* so every request writes one temp file and invokes the converter once.
C14_ConverterFailureNotRetried ==
    [][\A r \in Reqs :
          /\ (pc[r] = "convert" /\ reply'[r].payload = "ConvertError")
                => (reply'[r].status = 500 /\ pc'[r] = "onSend")
          /\ reply[r].status >= 500 => reply'[r].status >= 500
          /\ pc'[r] # pc[r] =>
                \/ StageRank(pc'[r]) > StageRank(pc[r])
                \/ (pc[r] = "unlink" /\ pc'[r] = "onSend")
          /\ (pc'[r] = "convert" /\ pc[r] # "convert") => pc[r] = "write"
          /\ (pc'[r] = "write" /\ pc[r] # "write") =>
                (pc[r] = "preHandler"
                   /\ TempFile(conv'[r].docLocation) \notin tempDir)]_vars

C14_Witness ==
    \E r \in Reqs :
        /\ pc[r] = "done"
        /\ reply[r] = [status |-> 500, payload |-> "ConvertError"]
        /\ cleanupRuns[r] = 1
        /\ FilesOf(r) = {}

\* C15: tidyHtml called with a language option that is not a valid IANA tag
\* throws a 400 whose message names querystring.language and returns no
\* document (no tidy or minify pass ran); called without the option it uses
\* en and succeeds.
C15_InvalidLanguageRejected ==
    (call.fn = "tidyHtml" /\ ret # NoRet) =>
        /\ (call.options.language # Undefined /\ ~Check(call.options.language))
              => ret = Throws(400, LanguageMessage)
        /\ call.options.language = Undefined
              => (ret.status = 200 /\ ret.out[1].lang = "en")

\* C16: the document tidyHtml returns when called with removeAlt true has
\* alt="" on every img (the attribute survives the tidy and minify passes);
\* with any other removeAlt every img keeps the alt it had, present or not.
C16_RemoveAltKeepsEmptyAlt ==
    (call.fn = "tidyHtml" /\ ret.status = 200) =>
        LET before == call.html.imgs
            after == ret.out[1].imgs
        IN
        /\ Len(after) = Len(before)
        /\ call.options.removeAlt = "true"
              => \A i \in DOMAIN after : after[i].alt = ""
        /\ call.options.removeAlt # "true"
              => \A i \in DOMAIN after : after[i].alt = before[i].alt

C16_Witness ==
    /\ call.fn = "tidyHtml"
    /\ call.options.removeAlt = "true"
    /\ Len(call.html.imgs) >= 2
    /\ call.html.imgs[1] = [alt |-> Absent, title |-> ""]
    /\ call.html.imgs[2].alt = "logo"
    /\ ret.status = 200
    /\ ret.out[1].imgs[1] = [alt |-> "", title |-> Absent]
    /\ ret.out[1].imgs[2].alt = ""

\* C17: the document a successful tidyHtml returns has both lang and xml:lang
\* of <html> equal to the validated tag: the requested tag, or en when none
\* was requested, whatever language attributes the input had.
C17_LanguageAttributesSet ==
    (call.fn = "tidyHtml" /\ ret.status = 200) =>
        LET tag == IF call.options.language \in IanaTags
                     THEN call.options.language ELSE "en"
        IN
        /\ ret.out[1].lang = tag
        /\ ret.out[1].xmlLang = tag

C17_Witness ==
    /\ call.fn = "tidyHtml"
    /\ call.options.language = "fr"
    /\ call.html.lang = "de"
    /\ call.html.xmlLang = Absent
    /\ ret.status = 200
    /\ ret.out[1].lang = "fr"
    /\ ret.out[1].xmlLang = "fr"

C19_NormalisedHasNoImages ==
    [][\A r \in Reqs : NormaliseStep(r) =>
          /\ images'[r] = {}
          /\ pc'[r] = "handler" =>
                /\ conv'[r].body # Undefined
                /\ \A p \in images[r] : cwd'[p] = 0
          /\ (\A p \in images[r] : cwd[p] = 0) => pc'[r] = "handler"]_vars

C19_Witness ==
    \E a, b \in Reqs :
        /\ a # b
        /\ pc[a] = "done" /\ reply[a].payload = "document"
        /\ conv[a].body # Undefined /\ images[a] = {}
        /\ pc[b] = "normalise"
        /\ images[b] # {}
        /\ \A p \in images[b] : cwd[p] = 0

\* C20: the route handler sends the converter's body through tidyHtml exactly
\* when at least one of the query flags boundingBoxXhtml,
\* boundingBoxXhtmlLayout, generateHtmlMetaFile is set; otherwise it sends
\* the body as it is.
C20_TidiedIffFlagSet ==
    (call.fn = "handler" /\ ret # NoRet) =>
        LET flagged == \/ call.query.boundingBoxXhtml
                       \/ call.query.boundingBoxXhtmlLayout
                       \/ call.query.generateHtmlMetaFile
        IN
        /\ ret.passes = 1 <=> flagged
        /\ flagged => ret = TidyHtml(call.body, NoOptions)
        /\ ~flagged => (ret.status = 200 /\ ret.out = <<call.body>>)

C20_Witness ==
    /\ call.fn = "handler"
    /\ call.query = [boundingBoxXhtml |-> FALSE,
                     boundingBoxXhtmlLayout |-> FALSE,
                     generateHtmlMetaFile |-> TRUE]
    /\ call.body.legacy
    /\ call.body.lang = Absent
    /\ ret.status = 200
    /\ ret.passes = 1
    /\ ret.out[1].lang = "en"
    /\ ~ret.out[1].legacy

\* C21: every file in the temp directory is named after the id some request
\* has already recorded in its docLocation, so the pattern of that request's
\* onSend hook matches it; this holds also after a file write that failed
\* part-way.
C21_EveryFileHasRecordedOwner ==
    \A f \in tempDir :
        \E r \in Reqs :
            /\ HasDocLocation(r)
            /\ f = TempFile(conv[r].docLocation)
            /\ GlobMatch(conv[r].docLocation, f)

C21_Witness ==
    \E r \in Reqs :
        /\ pc[r] = "onSend"
        /\ reply[r] = [status |-> 500, payload |-> "WriteError"]
        /\ cleanupRuns[r] = 0
        /\ TempFile(conv[r].docLocation) \in tempDir

\* request r takes a step of its onSend hook
OnSendStep(r) == pc[r] \in {"onSend", "unlink"} /\ pc'[r] # pc[r]

\* the step of r's onSend hook ends a cleanup in which nothing failed: there
\* was nothing staged, or every file the glob found was there and is removed
CleanupSucceeded(r) ==
    \/ pc[r] = "onSend" /\ ~HasDocLocation(r)
    \/ pc[r] = "unlink" /\ globbed[r] \subseteq tempDir
                        /\ tempDir' \cap globbed[r] = {}

\* C22: the onSend hook changes nothing of any request (body, conversion
\* results, document, side files, client state) and deletes only files named
\* after its own request's id; when its cleanup succeeds, or nothing was
\* staged, it hands on the reply it received, status and payload unchanged.
C22_CleanupLeavesResponseUntouched ==
    [][\A r \in Reqs : OnSendStep(r) =>
          /\ UNCHANGED <<reqBody, conv, images, cwd, sent, aborted>>
          /\ tempDir' \subseteq tempDir
          /\ \A f \in tempDir \ tempDir' : IsPrefix(conv[r].docLocation, f)
          /\ \A o \in Reqs \ {r} : reply'[o] = reply[o] /\ pc'[o] = pc[o]
          /\ pc[r] = "onSend" => (reply' = reply /\ tempDir' = tempDir)
          /\ CleanupSucceeded(r) =>
                (reply' = reply /\ pc'[r] = "respond")]_vars

C22_Witness ==
    \E r \in Reqs :
        /\ pc[r] = "respond"
        /\ reply[r] = [status |-> 200, payload |-> "document"]
        /\ ~errHandled[r]
        /\ cleanupRuns[r] = 1
        /\ FilesOf(r) = {}
        /\ ~closing

====
